---------------------------- MODULE Spec2Model ----------------------------
(***************************************************************************)
(* Model of aplatam/train.py: the command-line entry point that parses     *)
(* its arguments, configures logging, reads the [train] section of a       *)
(* config file, enumerates the rasters of a directory, validates that each *)
(* raster has 4 bands and delegates to build_trainset.                     *)
(*                                                                         *)
(* A run is one call of main (specification Spec), one call of parse_args  *)
(* (SpecParse), or one call of any entry point of the module, main or      *)
(* get_vector_crs (SpecModule).  The file system (config files, raster     *)
(* directory, vector file) and argv are inputs fixed by Init.              *)
(***************************************************************************)
EXTENDS Integers, Sequences, FiniteSets, TLC

VARIABLES
    argv,         \* the command line parameter list given to main / parse_args
    fsConfig,     \* file system: config path -> content of that file
    fsDir,        \* file system: the raster directory (listing of raster files)
    fsVector,     \* file system: the vector file
    pc,           \* position of the run: the stage about to execute
    args,         \* None, or Some(namespace) once parse_args returned
    rootLevel,    \* level of the root logger
    log,          \* records emitted to the log stream, oldest first
    config,       \* None, or Some(mapping) once read_config_file returned
    rasters,      \* None, or Some(list of raster paths) once enumerated
    idx,          \* validate loop: index of the current raster in the list
    count,        \* validate loop: band count last read
    openRasters,  \* raster datasets currently open
    opened,       \* history: raster paths opened so far, in order
    validated,    \* None, or Some(TRUE) once validate_rasters_band_count returned
    snap,         \* history: None, or Some(state at entry of validate_rasters_band_count)
    vectorOpen,   \* TRUE while the vector dataset is open
    vectorOpens,  \* history: number of times the vector file was opened
    crs,          \* None, or Some(crs) once get_vector_crs returned
    builderCalls, \* history: argument records of the build_trainset calls
    err,          \* the failure that ended the run (kind "none" while there is none)
    trace         \* history: stages executed so far, in order

vars == <<argv, fsConfig, fsDir, fsVector, pc, args, rootLevel, log, config,
          rasters, idx, count, openRasters, opened, validated, snap,
          vectorOpen, vectorOpens, crs, builderCalls, err, trace>>

-----------------------------------------------------------------------------
(* Bounds of the model                                                     *)

MaxRasters == 3
MaxArgs == 5

-----------------------------------------------------------------------------
(* Values                                                                  *)

None == <<>>
Some(x) == <<x>>

DEBUG == 10
INFO == 20
WARNING == 30
RequiredBands == 4

Last(s) == s[Len(s)]
Range(s) == {s[i] : i \in 1..Len(s)}

-----------------------------------------------------------------------------
(* parse_args                                                              *)

VerboseOptions == {"-v", "--verbose"}
VeryVerboseOptions == {"-vv", "--very-verbose"}
ExitOptions == {"--version", "-h", "--help"}
ConfigOptions == {"-c", "--config-file"}
OutputOptions == {"-o", "--output-model"}
SeedOptions == {"--seed"}
TempDirOptions == {"--temp-dir"}
ValueOptions == ConfigOptions \cup OutputOptions \cup SeedOptions \cup TempDirOptions
OptionStrings == VerboseOptions \cup VeryVerboseOptions \cup ExitOptions \cup ValueOptions

IsOption(tok) == tok \in OptionStrings

\* type=int of --seed: the strings int() accepts, and their values
IntStrings == {"42", "7"}
IntValue(tok) == IF tok = "42" THEN 42 ELSE 7

SystemTempDir == "/tmp"

DefaultNamespace ==
    [rasters_dir |-> "", vector |-> "", config_file |-> "default.cfg",
     output_model |-> "model.h5", seed |-> None, temp_dir |-> SystemTempDir,
     loglevel |-> None]

SwappedVerbosityConst(tok) == IF tok \in VerboseOptions THEN DEBUG ELSE INFO

\* store_const: the constant each verbosity option stores in loglevel
VerbosityConst(tok) == IF tok \in VerboseOptions THEN INFO ELSE DEBUG

Parsed(ns) == [outcome |-> "parsed", ns |-> ns]
UsageError == [outcome |-> "usage", ns |-> DefaultNamespace]
ExitZero == [outcome |-> "exit0", ns |-> DefaultNamespace]

\* argparse scans argv left to right.  An option that prints and exits
\* (--version, -h) ends the scan at once; an option taking a value fails
\* when no value follows or the value does not convert; positionals fill
\* rasters_dir then vector; what is missing or left over is reported once
\* the scan is over.
RECURSIVE ParseFrom(_, _, _, _)
ParseFrom(av, i, ns, npos) ==
    IF i > Len(av)
    THEN IF npos = 2 THEN Parsed(ns) ELSE UsageError
    ELSE LET tok == av[i] IN
         CASE tok \in ExitOptions -> ExitZero
           [] tok \in VerboseOptions \cup VeryVerboseOptions ->
                ParseFrom(av, i + 1, [ns EXCEPT !.loglevel = Some(VerbosityConst(tok))], npos)
           [] tok \in ValueOptions ->
                IF i + 1 > Len(av) \/ IsOption(av[i + 1])
                THEN UsageError
                ELSE LET val == av[i + 1] IN
                     CASE tok \in SeedOptions ->
                            IF val \in IntStrings
                            THEN ParseFrom(av, i + 2, [ns EXCEPT !.seed = Some(IntValue(val))], npos)
                            ELSE UsageError
                       [] tok \in ConfigOptions ->
                            ParseFrom(av, i + 2, [ns EXCEPT !.config_file = val], npos)
                       [] tok \in OutputOptions ->
                            ParseFrom(av, i + 2, [ns EXCEPT !.output_model = val], npos)
                       [] OTHER ->
                            ParseFrom(av, i + 2, [ns EXCEPT !.temp_dir = val], npos)
           [] OTHER ->
                CASE npos = 0 -> ParseFrom(av, i + 1, [ns EXCEPT !.rasters_dir = tok], 1)
                  [] npos = 1 -> ParseFrom(av, i + 1, [ns EXCEPT !.vector = tok], 2)
                  [] OTHER -> ParseFrom(av, i + 1, ns, npos + 1)

parse_args(av) == ParseFrom(av, 1, DefaultNamespace, 0)

-----------------------------------------------------------------------------
(* setup_logging and the logger                                            *)

LevelForcedInfo(loglevel, root) == IF loglevel = None THEN INFO ELSE loglevel[1]

\* logging.basicConfig(level=loglevel): a level of None leaves the root
\* logger at the level it had
setup_logging(loglevel, root) == IF loglevel = None THEN root ELSE loglevel[1]

EmitUnfiltered(lg, root, level, msg) == Append(lg, [level |-> level, msg |-> msg])

\* _logger.debug / _logger.info: the record is emitted when its level is
\* at least the effective (root) level
Emit(lg, root, level, msg) ==
    IF level >= root THEN Append(lg, [level |-> level, msg |-> msg]) ELSE lg

Messages(lg) == {lg[i].msg : i \in 1..Len(lg)}

-----------------------------------------------------------------------------
(* read_config_file                                                        *)

EmptyMap == [k \in {} |-> ""]

CfgMissing == [state |-> "missing", hasTrain |-> FALSE, train |-> EmptyMap, defaults |-> EmptyMap]
CfgMalformed == [state |-> "malformed", hasTrain |-> FALSE, train |-> EmptyMap, defaults |-> EmptyMap]
CfgNoTrain == [state |-> "parsed", hasTrain |-> FALSE, train |-> EmptyMap, defaults |-> [size |-> "256"]]
CfgTrain == [state |-> "parsed", hasTrain |-> TRUE, train |-> [epochs |-> "10"], defaults |-> EmptyMap]
CfgTrainDefaults ==
    [state |-> "parsed", hasTrain |-> TRUE, train |-> [epochs |-> "10"],
     defaults |-> [epochs |-> "1", size |-> "256"]]
CfgAlt == [state |-> "parsed", hasTrain |-> TRUE, train |-> [epochs |-> "20"], defaults |-> EmptyMap]

CfgContents == {CfgMissing, CfgMalformed, CfgNoTrain, CfgTrain, CfgTrainDefaults}
CfgPaths == {"default.cfg", "my.cfg"}

\* what is on disk at a path: a path outside the modelled files does not exist
ConfigContent(fs, path) == IF path \in DOMAIN fs THEN fs[path] ELSE CfgMissing

\* the options of a section: its own, over those of the DEFAULT section
SectionDict(content) ==
    [k \in DOMAIN content.train \cup DOMAIN content.defaults |->
        IF k \in DOMAIN content.train THEN content.train[k] ELSE content.defaults[k]]

ReadConfigLenient(content) ==
    CASE content.state = "malformed" -> [ok |-> FALSE, kind |-> "ParsingError", value |-> EmptyMap]
      [] content.state = "parsed" /\ content.hasTrain ->
            [ok |-> TRUE, kind |-> "none", value |-> SectionDict(content)]
      [] OTHER -> [ok |-> TRUE, kind |-> "none", value |-> EmptyMap]

\* config.read(path) skips a file that does not exist and raises on one it
\* cannot parse; config['train'] raises KeyError when there is no such section
ReadConfigFile(content) ==
    CASE content.state = "malformed" -> [ok |-> FALSE, kind |-> "ParsingError", value |-> EmptyMap]
      [] content.state = "parsed" /\ content.hasTrain ->
            [ok |-> TRUE, kind |-> "none", value |-> SectionDict(content)]
      [] OTHER -> [ok |-> FALSE, kind |-> "KeyError", value |-> EmptyMap]

-----------------------------------------------------------------------------
(* Rasters                                                                 *)

BandCounts == {3, 4, 5}
Unreadable == [readable |-> FALSE, count |-> 0]
RasterFiles == {[readable |-> TRUE, count |-> c] : c \in BandCounts} \cup {Unreadable}

RastersDir == "rdir"

SeqsUpTo(S, n) == UNION {[1..k -> S] : k \in 0..n}

\* a raster path is the position of the file in the sorted directory listing
all_raster_files(dir, path) ==
    IF path = RastersDir THEN [i \in 1..Len(dir.files) |-> i] ELSE <<>>

RasterAt(dir, path) == dir.files[path]

BandCountAtLeast(c) == c >= RequiredBands

\* the check of the loop body: count != 4 raises
BandCountOk(c) == c = RequiredBands

NoError == [kind |-> "none", stage |-> "none", count |-> 0]
Failure(kind, stage) == [kind |-> kind, stage |-> stage, count |-> 0]

BandCountErrorExpected(c) ==
    [kind |-> "RuntimeError", stage |-> "validate_rasters_band_count", count |-> RequiredBands]

\* RuntimeError('Rasters must have exactly 4 bands (was {})'.format(count))
BandCountError(c) ==
    [kind |-> "RuntimeError", stage |-> "validate_rasters_band_count", count |-> c]

LeakRaster(open, path) == open

\* leaving the with block of get_raster_band_count closes the dataset
CloseRaster(open, path) == open \ {path}

-----------------------------------------------------------------------------
(* main                                                                    *)

PipelineWithCrs ==
    <<"parse_args", "setup_logging", "read_config_file", "all_raster_files",
      "validate_rasters_band_count", "get_vector_crs", "build_trainset", "log_done">>

PipelineBuildFirst ==
    <<"parse_args", "setup_logging", "read_config_file", "all_raster_files",
      "build_trainset", "validate_rasters_band_count", "log_done">>

\* the statements of main, in order
Pipeline ==
    <<"parse_args", "setup_logging", "read_config_file", "all_raster_files",
      "validate_rasters_band_count", "build_trainset", "log_done">>

\* where control goes when a stage returns: the next statement of main, or
\* the end of the run for a function that main does not call
StageAfter(stage) ==
    LET at == {i \in 1..Len(Pipeline) : Pipeline[i] = stage} IN
    IF at # {} /\ (CHOOSE i \in at : TRUE) < Len(Pipeline)
    THEN Pipeline[(CHOOSE i \in at : TRUE) + 1]
    ELSE "done"

Args == args[1]

BuilderCallSwapped(rs, ns, cfg) ==
    [rasters |-> rs, vector |-> ns.rasters_dir, config |-> cfg, temp_dir |-> SystemTempDir]

\* build_trainset(rasters, args.vector, config, temp_dir=args.temp_dir)
BuilderCall(rs, ns, cfg) ==
    [rasters |-> rs, vector |-> ns.vector, config |-> cfg, temp_dir |-> ns.temp_dir]

\* an exception is caught nowhere: it ends the run
Raise(e) == pc' = "error" /\ err' = e

ParseArgs ==
    /\ pc = "parse_args"
    /\ trace' = Append(trace, "parse_args")
    /\ LET r == parse_args(argv) IN
       CASE r.outcome = "parsed" ->
              /\ args' = Some(r.ns)
              /\ pc' = StageAfter("parse_args")
              /\ err' = err
         [] r.outcome = "exit0" ->
              /\ args' = args
              /\ pc' = "exited"
              /\ err' = err
         [] OTHER ->
              /\ args' = args
              /\ Raise(Failure("UsageError", "parse_args"))
    /\ UNCHANGED <<argv, fsConfig, fsDir, fsVector, rootLevel, log, config, rasters,
                   idx, count, openRasters, opened, validated, snap, vectorOpen,
                   vectorOpens, crs, builderCalls>>

SetupLogging ==
    /\ pc = "setup_logging"
    /\ trace' = Append(trace, "setup_logging")
    /\ rootLevel' = setup_logging(Args.loglevel, rootLevel)
    /\ pc' = StageAfter("setup_logging")
    /\ UNCHANGED <<argv, fsConfig, fsDir, fsVector, args, log, config, rasters, idx,
                   count, openRasters, opened, validated, snap, vectorOpen,
                   vectorOpens, crs, builderCalls, err>>

ReadConfig ==
    /\ pc = "read_config_file"
    /\ trace' = Append(trace, "read_config_file")
    /\ log' = Emit(log, rootLevel, DEBUG, "read config file")
    /\ LET r == ReadConfigFile(ConfigContent(fsConfig, Args.config_file)) IN
       IF r.ok
       THEN /\ config' = Some(r.value)
            /\ pc' = StageAfter("read_config_file")
            /\ err' = err
       ELSE /\ config' = config
            /\ Raise(Failure(r.kind, "read_config_file"))
    /\ UNCHANGED <<argv, fsConfig, fsDir, fsVector, args, rootLevel, rasters, idx,
                   count, openRasters, opened, validated, snap, vectorOpen,
                   vectorOpens, crs, builderCalls>>

CollectRasters ==
    /\ pc = "all_raster_files"
    /\ trace' = Append(trace, "all_raster_files")
    /\ log' = Emit(log, rootLevel, DEBUG, "Collect all rasters")
    /\ IF fsDir.listable \/ Args.rasters_dir # RastersDir
       THEN /\ rasters' = Some(all_raster_files(fsDir, Args.rasters_dir))
            /\ pc' = StageAfter("all_raster_files")
            /\ err' = err
       ELSE /\ rasters' = rasters
            /\ Raise(Failure("OSError", "all_raster_files"))
    /\ UNCHANGED <<argv, fsConfig, fsDir, fsVector, args, rootLevel, config, idx,
                   count, openRasters, opened, validated, snap, vectorOpen,
                   vectorOpens, crs, builderCalls>>

\* what validate_rasters_band_count could change, as it stands at a moment
RunState ==
    [args |-> args, config |-> config, rasters |-> rasters, rootLevel |-> rootLevel,
     log |-> log, builderCalls |-> builderCalls, fsConfig |-> fsConfig,
     fsDir |-> fsDir, fsVector |-> fsVector, vectorOpen |-> vectorOpen]

\* entry of validate_rasters_band_count: the debug message, then the loop
ValidateStart ==
    /\ pc = "validate_rasters_band_count"
    /\ trace' = Append(trace, "validate_rasters_band_count")
    /\ snap' = Some(RunState)
    /\ log' = Emit(log, rootLevel, DEBUG, "Validate rasters band count")
    /\ idx' = 1
    /\ pc' = "raster_open"
    /\ UNCHANGED <<argv, fsConfig, fsDir, fsVector, args, rootLevel, config, rasters,
                   count, openRasters, opened, validated, vectorOpen, vectorOpens,
                   crs, builderCalls, err>>

\* the loop is exhausted: return True
ValidateReturn ==
    /\ pc = "raster_open"
    /\ idx > Len(rasters[1])
    /\ validated' = Some(TRUE)
    /\ pc' = StageAfter("validate_rasters_band_count")
    /\ UNCHANGED <<argv, fsConfig, fsDir, fsVector, args, rootLevel, log, config,
                   rasters, idx, count, openRasters, opened, snap, vectorOpen,
                   vectorOpens, crs, builderCalls, err, trace>>

\* get_raster_band_count: rasterio.open(raster_path), which may raise
RasterOpen ==
    /\ pc = "raster_open"
    /\ idx <= Len(rasters[1])
    /\ LET path == rasters[1][idx] IN
       /\ opened' = Append(opened, path)
       /\ IF RasterAt(fsDir, path).readable
          THEN /\ openRasters' = openRasters \cup {path}
               /\ pc' = "raster_close"
               /\ err' = err
          ELSE /\ openRasters' = openRasters
               /\ Raise(Failure("RasterioIOError", "validate_rasters_band_count"))
    /\ UNCHANGED <<argv, fsConfig, fsDir, fsVector, args, rootLevel, log, config,
                   rasters, idx, count, validated, snap, vectorOpen, vectorOpens,
                   crs, builderCalls, trace>>

\* return dataset.count out of the with block, then the check of the loop body
RasterClose ==
    /\ pc = "raster_close"
    /\ LET path == rasters[1][idx]
           c == RasterAt(fsDir, path).count IN
       /\ count' = c
       /\ openRasters' = CloseRaster(openRasters, path)
       /\ IF BandCountOk(c)
          THEN /\ idx' = idx + 1
               /\ pc' = "raster_open"
               /\ err' = err
          ELSE /\ idx' = idx
               /\ Raise(BandCountError(c))
    /\ UNCHANGED <<argv, fsConfig, fsDir, fsVector, args, rootLevel, log, config,
                   rasters, opened, validated, snap, vectorOpen, vectorOpens, crs,
                   builderCalls, trace>>

\* the call of the external builder: it may log, and it returns or raises
BuildTrainset ==
    /\ pc = "build_trainset"
    /\ trace' = Append(trace, "build_trainset")
    /\ builderCalls' = Append(builderCalls, BuilderCall(rasters[1], Args, config[1]))
    /\ \E logs \in BOOLEAN, level \in {INFO, WARNING} :
          log' = IF logs THEN Emit(log, rootLevel, level, "build_trainset") ELSE log
    /\ \E fails \in BOOLEAN :
          IF fails
          THEN Raise(Failure("BuilderError", "build_trainset"))
          ELSE pc' = StageAfter("build_trainset") /\ err' = err
    /\ UNCHANGED <<argv, fsConfig, fsDir, fsVector, args, rootLevel, config, rasters,
                   idx, count, openRasters, opened, validated, snap, vectorOpen,
                   vectorOpens, crs>>

LogDone ==
    /\ pc = "log_done"
    /\ trace' = Append(trace, "log_done")
    /\ log' = Emit(log, rootLevel, INFO, "Done")
    /\ pc' = StageAfter("log_done")
    /\ UNCHANGED <<argv, fsConfig, fsDir, fsVector, args, rootLevel, config, rasters,
                   idx, count, openRasters, opened, validated, snap, vectorOpen,
                   vectorOpens, crs, builderCalls, err>>

-----------------------------------------------------------------------------
(* get_vector_crs                                                          *)

\* fiona.open(vector_path), which may raise
VectorOpen ==
    /\ pc = "get_vector_crs"
    /\ trace' = Append(trace, "get_vector_crs")
    /\ IF fsVector.readable
       THEN /\ vectorOpen' = TRUE
            /\ vectorOpens' = vectorOpens + 1
            /\ pc' = "vector_close"
            /\ err' = err
       ELSE /\ vectorOpen' = vectorOpen
            /\ vectorOpens' = vectorOpens
            /\ Raise(Failure("DriverError", "get_vector_crs"))
    /\ UNCHANGED <<argv, fsConfig, fsDir, fsVector, args, rootLevel, log, config,
                   rasters, idx, count, openRasters, opened, validated, snap, crs,
                   builderCalls>>

\* return dataset.crs out of the with block; the call that started the run
\* returns to the outside, any other to the statement after it
VectorClose ==
    /\ pc = "vector_close"
    /\ crs' = Some(fsVector.crs)
    /\ vectorOpen' = FALSE
    /\ pc' = IF trace[1] = "get_vector_crs" THEN "done" ELSE StageAfter("get_vector_crs")
    /\ UNCHANGED <<argv, fsConfig, fsDir, fsVector, args, rootLevel, log, config,
                   rasters, idx, count, openRasters, opened, validated, snap,
                   vectorOpens, builderCalls, err, trace>>

-----------------------------------------------------------------------------
(* Inputs and specifications                                               *)

Positionals == {<<"rdir", "vec">>, <<"rdir">>}
Verbosities == {<<>>, <<"-v">>, <<"-vv">>}
Extras == {<<>>, <<"-c", "my.cfg">>, <<"--temp-dir", "tmp">>, <<"--seed", "42">>,
           <<"--version">>}

\* the command lines of the runs of main
MainArgvs == {p \o v \o x : p \in Positionals, v \in Verbosities, x \in Extras}

ParseTokens == {"-v", "--verbose", "-vv", "--very-verbose", "--seed", "42",
                "rdir", "vec", "--version", "--temp-dir"}

\* the command lines parse_args is tried on
ParseArgvs == SeqsUpTo(ParseTokens, MaxArgs)

Directories ==
    {[listable |-> TRUE, files |-> fs] : fs \in SeqsUpTo(RasterFiles, MaxRasters)}
    \cup {[listable |-> FALSE, files |-> <<>>]}

VectorFiles == {[readable |-> TRUE, crs |-> "EPSG:4326"],
                [readable |-> TRUE, crs |-> "EPSG:32721"],
                [readable |-> FALSE, crs |-> ""]}

InitRun ==
    /\ args = None
    /\ rootLevel = WARNING
    /\ log = <<>>
    /\ config = None
    /\ rasters = None
    /\ idx = 0
    /\ count = 0
    /\ openRasters = {}
    /\ opened = <<>>
    /\ validated = None
    /\ snap = None
    /\ vectorOpen = FALSE
    /\ vectorOpens = 0
    /\ crs = None
    /\ builderCalls = <<>>
    /\ err = NoError
    /\ trace = <<>>

\* a call of main
Init ==
    /\ argv \in MainArgvs
    /\ \E c \in CfgContents :
          fsConfig = [p \in CfgPaths |-> IF p = "default.cfg" THEN c ELSE CfgAlt]
    /\ fsDir \in Directories
    /\ fsVector = [readable |-> TRUE, crs |-> "EPSG:4326"]
    /\ pc = "parse_args"
    /\ InitRun

Next ==
    \/ ParseArgs
    \/ SetupLogging
    \/ ReadConfig
    \/ CollectRasters
    \/ ValidateStart
    \/ RasterOpen
    \/ RasterClose
    \/ ValidateReturn
    \/ BuildTrainset
    \/ LogDone

Spec == Init /\ [][Next]_vars

\* a call of parse_args
InitParse ==
    /\ argv \in ParseArgvs
    /\ fsConfig = [p \in CfgPaths |-> CfgAlt]
    /\ fsDir = [listable |-> TRUE, files |-> <<>>]
    /\ fsVector = [readable |-> TRUE, crs |-> "EPSG:4326"]
    /\ pc = "parse_args"
    /\ InitRun

NextParse == ParseArgs

SpecParse == InitParse /\ [][NextParse]_vars

\* a call of get_vector_crs
InitCrs ==
    /\ argv = <<>>
    /\ fsConfig = [p \in CfgPaths |-> CfgAlt]
    /\ fsDir = [listable |-> TRUE, files |-> <<>>]
    /\ fsVector \in VectorFiles
    /\ pc = "get_vector_crs"
    /\ InitRun

InitModule == Init \/ InitCrs

NextModule ==
    \/ Next
    \/ VectorOpen
    \/ VectorClose

SpecModule == InitModule /\ [][NextModule]_vars

-----------------------------------------------------------------------------
(* Properties                                                              *)

MainRun == pc = "parse_args" \/ (trace # <<>> /\ trace[1] = "parse_args")
ValidationOver ==
    /\ "validate_rasters_band_count" \in Range(trace)
    /\ pc \notin {"raster_open", "raster_close"}
WrongCount(path) == RasterAt(fsDir, path).readable /\ RasterAt(fsDir, path).count # 4
HasWrongCount == rasters # None /\ \E p \in Range(rasters[1]) : WrongCount(p)
FirstWrongCount ==
    CHOOSE i \in 1..Len(rasters[1]) :
        WrongCount(rasters[1][i]) /\ \A j \in 1..(i - 1) : ~WrongCount(rasters[1][j])
AllFourBands ==
    /\ rasters # None
    /\ \A p \in Range(rasters[1]) :
          RasterAt(fsDir, p).readable /\ RasterAt(fsDir, p).count = 4
FirstPaths(n) == [i \in 1..n |-> rasters[1][i]]
HasToken(S) == \E i \in 1..Len(argv) : argv[i] \in S
RECURSIVE CountPositionals(_, _)
CountPositionals(av, i) ==
    IF i > Len(av) THEN 0
    ELSE IF av[i] \in ValueOptions THEN CountPositionals(av, i + 2)
    ELSE IF IsOption(av[i]) THEN CountPositionals(av, i + 1)
    ELSE 1 + CountPositionals(av, i + 1)

\* C1: build_trainset is never invoked when a raster of the enumerated set
\* reports a band count other than 4; when it is invoked, every raster of
\* the set has been opened and has reported exactly 4 bands.
C1_BuilderOnlyAfterFourBands ==
    /\ HasWrongCount => builderCalls = <<>>
    /\ builderCalls # <<>> =>
          /\ AllFourBands
          /\ \A p \in Range(rasters[1]) : p \in Range(opened)

C1_Witness ==
    /\ pc = "error"
    /\ err.kind = "RuntimeError"
    /\ err.count = 3
    /\ \E p \in Range(rasters[1]) : RasterAt(fsDir, p).count = 4
    /\ builderCalls = <<>>

C3_ReturnsTrueNothingChanged ==
    /\ (ValidationOver /\ AllFourBands) => validated = Some(TRUE)
    /\ (validated = Some(TRUE) /\ pc = "build_trainset") =>
          /\ openRasters = {}
          /\ RunState = snap[1]

\* C3 amended: when every raster reports 4 bands (the empty list included),
\* validation returns True and, when it has returned, no raster is open and
\* the run state is what it was when validation was entered, except that
\* under loglevel DEBUG the record "Validate rasters band count" has been
\* appended to the log.
C3_ReturnsTrueOnlyDebugLogged ==
    /\ (ValidationOver /\ AllFourBands) => validated = Some(TRUE)
    /\ validated = Some(TRUE) => AllFourBands
    /\ (validated = Some(TRUE) /\ pc = "build_trainset") =>
          /\ openRasters = {}
          /\ RunState =
                [snap[1] EXCEPT !.log =
                    IF Args.loglevel = Some(DEBUG)
                    THEN Append(@, [level |-> DEBUG, msg |-> "Validate rasters band count"])
                    ELSE @]

C3_Witness ==
    /\ validated = Some(TRUE)
    /\ pc = "build_trainset"
    /\ Len(rasters[1]) >= 2
    /\ Args.loglevel = Some(DEBUG)
    /\ Len(log) = Len(snap[1].log) + 1

\* C4: the builder is invoked at most once, only after validation returned;
\* in a run where validation succeeded and the builder stage is over it was
\* invoked exactly once, with the enumerated raster list, the vector path
\* and temp directory of the command line and the [train] mapping of the
\* config file.
C4_BuilderCalledOnceWithInputs ==
    /\ Len(builderCalls) <= 1
    /\ pc = "build_trainset" => builderCalls = <<>>
    /\ (validated = Some(TRUE) /\ pc # "build_trainset") => Len(builderCalls) = 1
    /\ builderCalls # <<>> =>
          LET ns == parse_args(argv).ns IN
          /\ validated = Some(TRUE)
          /\ builderCalls[1].rasters = [i \in 1..Len(fsDir.files) |-> i]
          /\ builderCalls[1].rasters = rasters[1]
          /\ builderCalls[1].vector = ns.vector
          /\ builderCalls[1].vector = "vec"
          /\ builderCalls[1].temp_dir = ns.temp_dir
          /\ builderCalls[1].config = SectionDict(ConfigContent(fsConfig, ns.config_file))

C4_Witness ==
    /\ pc = "done"
    /\ Len(builderCalls) = 1
    /\ builderCalls[1].rasters = <<1, 2, 3>>
    /\ builderCalls[1].temp_dir = "tmp"
    /\ builderCalls[1].config = [epochs |-> "10", size |-> "256"]

\* C5 as stated: whatever the verbosity, a run that completes has emitted
\* "Done" and it is the last record of the log.
C5_DoneLoggedAtAnyVerbosity ==
    pc = "done" => (log # <<>> /\ Last(log).msg = "Done")

\* C5 amended: in a run that completes under -v or -vv, "Done" is emitted
\* once and is the last record of the log; with no verbosity option the
\* root logger stays at WARNING and "Done" is not emitted.
C5_DoneLoggedWhenVerbose ==
    /\ pc = "done" =>
          IF Args.loglevel # None
          THEN /\ log # <<>>
               /\ Last(log).msg = "Done"
               /\ Cardinality({i \in 1..Len(log) : log[i].msg = "Done"}) = 1
          ELSE "Done" \notin Messages(log)
    /\ "Done" \in Messages(log) => pc = "done"

C5_Witness ==
    /\ pc = "done"
    /\ Args.loglevel = Some(INFO)
    /\ Len(log) = 2
    /\ Last(log).msg = "Done"

\* C6: when the config file named on the command line does not exist or has
\* no [train] section, the read-config stage fails with a KeyError that ends
\* the run: rasters are not enumerated, no raster is opened, the builder is
\* not invoked and "Done" is not logged.
C6_MissingTrainSectionKeyError ==
    ("read_config_file" \in Range(trace)
        /\ LET c == ConfigContent(fsConfig, Args.config_file) IN
           c.state = "missing" \/ (c.state = "parsed" /\ ~c.hasTrain)) =>
        /\ pc = "error"
        /\ err.kind = "KeyError"
        /\ err.stage = "read_config_file"
        /\ config = None
        /\ rasters = None
        /\ opened = <<>>
        /\ builderCalls = <<>>
        /\ "Done" \notin Messages(log)

C6_Witness ==
    /\ pc = "error"
    /\ err.kind = "KeyError"
    /\ ConfigContent(fsConfig, Args.config_file).state = "parsed"
    /\ Args.loglevel = Some(DEBUG)

\* C7 as stated: a run of main that completes has opened the vector file
\* exactly once and has closed it.
C7_MainOpensVectorOnce ==
    (MainRun /\ pc = "done") => (vectorOpens = 1 /\ ~vectorOpen)

\* C7 amended: a run of main never opens the vector file, it only hands the
\* vector path to the builder; a call of get_vector_crs opens the vector
\* file exactly once, to read its coordinate reference system, and has
\* closed it when it returns.
C7_VectorOpenedOnlyByGetVectorCrs ==
    /\ MainRun =>
          /\ vectorOpens = 0
          /\ ~vectorOpen
          /\ crs = None
          /\ builderCalls # <<>> => builderCalls[1].vector = Args.vector
    /\ ~MainRun =>
          /\ vectorOpens <= 1
          /\ vectorOpen <=> pc = "vector_close"
          /\ pc = "done" =>
                (vectorOpens = 1 /\ fsVector.readable /\ crs = Some(fsVector.crs))
          /\ pc = "error" => (vectorOpens = 0 /\ crs = None)

C7_Witness ==
    /\ MainRun
    /\ pc = "done"
    /\ vectorOpens = 0
    /\ builderCalls[1].vector = "vec"

\* C8: at most one raster is open at any time; a raster is open only between
\* its own open and its close, so none is open when the next one is opened,
\* when validation fails, when the builder is invoked or when the run ends.
C8_AtMostOneRasterOpen ==
    /\ Cardinality(openRasters) <= 1
    /\ pc = "raster_close" => openRasters = {rasters[1][idx]}
    /\ pc # "raster_close" => openRasters = {}

C8_Witness ==
    /\ pc = "raster_close"
    /\ idx = 2
    /\ openRasters = {2}
    /\ opened = <<1, 2>>

\* C9 as stated: an accepted argument list yields loglevel INFO for -v /
\* --verbose alone, DEBUG for -vv / --very-verbose alone and None for
\* neither, and the integer of --seed or None; an argument list with fewer
\* than two positional arguments ends in a usage error.
C9_MissingPositionalIsUsageError ==
    /\ pc = "setup_logging" =>
          /\ (HasToken(VerboseOptions) /\ ~HasToken(VeryVerboseOptions))
                => Args.loglevel = Some(20)
          /\ (HasToken(VeryVerboseOptions) /\ ~HasToken(VerboseOptions))
                => Args.loglevel = Some(10)
          /\ (~HasToken(VerboseOptions) /\ ~HasToken(VeryVerboseOptions))
                => Args.loglevel = None
          /\ IF HasToken(SeedOptions) THEN Args.seed = Some(42) ELSE Args.seed = None
    /\ (pc # "parse_args" /\ CountPositionals(argv, 1) < 2) =>
          (pc = "error" /\ err.kind = "UsageError")

\* C9 amended: an argument list that parse_args accepts yields loglevel INFO
\* for -v / --verbose alone, DEBUG for -vv / --very-verbose alone and None
\* for neither, and the integer of --seed or None; an argument list with
\* fewer than two positional arguments yields no parsed result: it ends in a
\* usage error, or in the exit of --version / -h when one of them is given;
\* two positional arguments with verbosity options only are accepted.
C9_ParsedLevelsSeedAndPositionals ==
    /\ pc = "setup_logging" =>
          /\ CountPositionals(argv, 1) = 2
          /\ (HasToken(VerboseOptions) /\ ~HasToken(VeryVerboseOptions))
                => Args.loglevel = Some(20)
          /\ (HasToken(VeryVerboseOptions) /\ ~HasToken(VerboseOptions))
                => Args.loglevel = Some(10)
          /\ (~HasToken(VerboseOptions) /\ ~HasToken(VeryVerboseOptions))
                => Args.loglevel = None
          /\ IF HasToken(SeedOptions) THEN Args.seed = Some(42) ELSE Args.seed = None
    /\ (pc # "parse_args" /\ CountPositionals(argv, 1) < 2) =>
          /\ args = None
          /\ pc \in {"error", "exited"}
          /\ pc = "error" => err.kind = "UsageError"
          /\ ~HasToken(ExitOptions) => pc = "error"
    /\ pc = "exited" => HasToken(ExitOptions)
    /\ (pc # "parse_args" /\ CountPositionals(argv, 1) = 2
            /\ \A i \in 1..Len(argv) :
                  ~IsOption(argv[i]) \/ argv[i] \in VerboseOptions \cup VeryVerboseOptions)
          => pc = "setup_logging"

C9_Witness ==
    /\ pc = "setup_logging"
    /\ argv = <<"--seed", "42", "--verbose", "rdir", "vec">>
    /\ Args.seed = Some(42)
    /\ Args.loglevel = Some(20)
    /\ Args.rasters_dir = "rdir"
    /\ Args.vector = "vec"

\* C10: the stages run in the fixed order parse args, configure logging,
\* read config, enumerate rasters, validate, call builder, log "Done", each
\* at most once; a failure ends the run in the error state with the failure
\* of the stage that ran last, so no later stage has run, and "Done" is
\* logged only by a run that completes.
C10_FixedOrderFailureEndsRun ==
    LET order == <<"parse_args", "setup_logging", "read_config_file", "all_raster_files",
                   "validate_rasters_band_count", "build_trainset", "log_done">>
        kinds == [s \in Range(order) |->
                    CASE s = "parse_args" -> {"UsageError"}
                      [] s = "read_config_file" -> {"KeyError", "ParsingError"}
                      [] s = "all_raster_files" -> {"OSError"}
                      [] s = "validate_rasters_band_count" -> {"RasterioIOError", "RuntimeError"}
                      [] s = "build_trainset" -> {"BuilderError"}
                      [] OTHER -> {}]
    IN
    /\ Len(trace) <= Len(order)
    /\ \A i \in 1..Len(trace) : trace[i] = order[i]
    /\ pc \in Range(order) => (Len(trace) < Len(order) /\ pc = order[Len(trace) + 1])
    /\ pc = "done" => trace = order
    /\ pc = "error" =>
          /\ trace # <<>>
          /\ err.stage = Last(trace)
          /\ err.kind \in kinds[Last(trace)]
          /\ "Done" \notin Messages(log)
    /\ pc # "error" => err = NoError

C10_Witness ==
    /\ pc = "error"
    /\ err.kind = "BuilderError"
    /\ Len(trace) = 6
    /\ Len(opened) = 2

=============================================================================
